---- MODULE Spec2Model ----
(***************************************************************************)
(* Model of variantdev/dag, package pkg/dag (dag.go, the Key-typed DAG).   *)
(*                                                                         *)
(* The Graph Store (nodes, outputs, labels, numInputs) is the state; every *)
(* public mutator is one action; Sort/Plan is one action whose result is   *)
(* computed by the operators below exactly as DAG.Sort computes it, with   *)
(* every Go map iteration modelled as a choice over all iteration orders.  *)
(***************************************************************************)
EXTENDS Integers, Sequences, FiniteSets, TLC

VARIABLES
    nodes,      \* g.nodes      []Key
    outputs,    \* g.outputs    map[Key]map[Key]bool
    labels,     \* g.labels     map[Key]map[string]bool
    numInputs,  \* g.numInputs  map[Key]int
    ret,        \* what the last call returned
    built,      \* elementary changes (a node, an edge, a label, a removal)
                \* the mutator calls have asked for so far
    calls       \* the Sort/Plan calls that run step by step, one record
                \* per goroutine: its position and its local variables

vars == <<nodes, outputs, labels, numInputs, ret, built, calls>>

(***************************************************************************)
(* Bounds and input universes.                                             *)
(***************************************************************************)
\* The keys the callers use.  Key.Less is the order of the integers.
Keys == {1, 2, 3}

\* The label strings the callers use.
LabelNames == {"l1", "l2"}

\* Elementary changes the mutator calls of one behaviour may ask for.
MaxBuilt == 2

\* The node lists given to New(Nodes(...)): none, or the first n keys.
InitNodeLists == {[i \in 1..n |-> i] : n \in 0..Cardinality(Keys)}

\* Longest dependency list passed to AddDependency / Add.
MaxDeps == 2

Less(a, b) == a < b

(***************************************************************************)
(* Go maps: a map is a function whose DOMAIN is the set of present keys.   *)
(* Reading an absent key yields the zero value.                            *)
(***************************************************************************)
EmptyMap == [k \in {} |-> 0]

Put(m, k, v) == [x \in (DOMAIN m) \cup {k} |-> IF x = k THEN v ELSE m[x]]

\* numInputs[k] with Go's zero value for an absent key
Count(m, k) == IF k \in DOMAIN m THEN m[k] ELSE 0

\* outputs[k] with Go's nil map for an absent key
Outs(m, k) == IF k \in DOMAIN m THEN m[k] ELSE {}

\* labels[k] with Go's nil map for an absent key
Labs(m, k) == IF k \in DOMAIN m THEN m[k] ELSE {}

Range(s) == {s[i] : i \in 1..Len(s)}

\* All sequences over S of length at most n
RECURSIVE SeqsUpTo(_, _)
SeqsUpTo(S, n) ==
    IF n = 0 THEN {<<>>}
    ELSE LET shorter == SeqsUpTo(S, n - 1)
         IN  shorter \cup {Append(s, x) : s \in shorter, x \in S}

\* All orders in which a Go `range` may visit the keys of a map (a set)
RECURSIVE Orders(_)
Orders(S) ==
    IF S = {} THEN {<<>>}
    ELSE UNION {{<<x>> \o t : t \in Orders(S \ {x})} : x \in S}

(***************************************************************************)
(* The graph as a value, so that the mutators compose.                     *)
(***************************************************************************)
Graph(ns, outs, labs, nin) ==
    [nodes |-> ns, outputs |-> outs, labels |-> labs, numInputs |-> nin]

G == Graph(nodes, outputs, labels, numInputs)

\* New(): empty maps, no nodes
NewGraph == Graph(<<>>, EmptyMap, EmptyMap, EmptyMap)

\* DAG.AddNode: refuses a key present in numInputs, appends the key,
\* creates the outputs bucket; the numInputs entry is written only when
\* it is already there, which the first test excludes.
AddNodeOk(g, key) == key \notin DOMAIN g.numInputs

AddNodeG(g, key) ==
    IF ~AddNodeOk(g, key) THEN g
    ELSE [g EXCEPT
            !.nodes = Append(g.nodes, key),
            !.outputs = IF key \in DOMAIN g.outputs THEN g.outputs
                        ELSE Put(g.outputs, key, {})]

\* DAG.AddNodes: stops at the first key AddNode refuses
RECURSIVE AddNodesG(_, _)
AddNodesG(g, names) ==
    IF names = <<>> THEN g
    ELSE IF ~AddNodeOk(g, Head(names)) THEN g
    ELSE AddNodesG(AddNodeG(g, Head(names)), Tail(names))

RECURSIVE AddNodesOk(_, _)
AddNodesOk(g, names) ==
    IF names = <<>> THEN TRUE
    ELSE IF ~AddNodeOk(g, Head(names)) THEN FALSE
    ELSE AddNodesOk(AddNodeG(g, Head(names)), Tail(names))

\* DAG.AddEdge: creates the bucket of `from`, sets the edge, and
\* increments numInputs[to] whether or not the edge was already there.
AddEdgeG(g, from, to) ==
    [g EXCEPT
        !.outputs = Put(g.outputs, from, Outs(g.outputs, from) \cup {to}),
        !.numInputs = Put(g.numInputs, to, Count(g.numInputs, to) + 1)]

\* DAG.AddDependency / AddDependencies: AddEdge(d, sub) for each d
RECURSIVE AddDependencyG(_, _, _)
AddDependencyG(g, sub, deps) ==
    IF deps = <<>> THEN g
    ELSE AddDependencyG(AddEdgeG(g, Head(deps), sub), sub, Tail(deps))

\* DAG.AddLabel / AddLabels: nothing is stored for an empty label list
AddLabelG(g, sub, labs) ==
    IF labs = {} THEN g
    ELSE [g EXCEPT !.labels = Put(g.labels, sub, Labs(g.labels, sub) \cup labs)]

\* DAG.Add: AddNode (result ignored), AddDependencies, AddLabels
AddG(g, node, deps, labs) ==
    AddLabelG(AddDependencyG(AddNodeG(g, node), node, deps), node, labs)

\* DAG.RemoveEdge: fails only when `from` has no bucket; otherwise deletes
\* the edge and decrements numInputs[to] whether or not the edge existed.
RemoveEdgeOk(g, from) == from \in DOMAIN g.outputs

RemoveEdgeG(g, from, to) ==
    IF ~RemoveEdgeOk(g, from) THEN g
    ELSE [g EXCEPT
            !.outputs = Put(g.outputs, from, g.outputs[from] \ {to}),
            !.numInputs = Put(g.numInputs, to, Count(g.numInputs, to) - 1)]

(***************************************************************************)
(* DAG.Sort (Plan is an alias).                                            *)
(***************************************************************************)
\* SortOptions after every SortOption was applied; Only(...) appends, so
\* the map built from it is the set of all keys given.
SortOpts(only, withDeps, withoutDeps) ==
    [only |-> only, withDeps |-> withDeps, withoutDeps |-> withoutDeps]

AllSortOpts ==
    {SortOpts(o, wd, wod) : o \in SUBSET Keys, wd \in BOOLEAN, wod \in BOOLEAN}

\* &NodeInfo{Id: n}
NewInfo(n) == [Id |-> n, ParentIds |-> <<>>, ChildIds |-> <<>>]

\* One NodeInfo is allocated per entry of g.nodes; a pointer to it is its
\* position in g.nodes.
InitInfos(ns) == [i \in 1..Len(ns) |-> NewInfo(ns[i])]

\* nodes[n] = info: a later entry of g.nodes with the same key overwrites
NodeIdx(ns) ==
    [k \in Range(ns) |->
        CHOOSE i \in 1..Len(ns) : ns[i] = k /\ \A j \in (i + 1)..Len(ns) : ns[j] # k]

\* current: the entries of g.nodes whose copied count is 0, in g.nodes order
SeedCurrent(ns, num) ==
    SelectSeq([i \in 1..Len(ns) |-> i], LAMBDA i : Count(num, ns[i]) = 0)

\* The state of the call after the copies and the seeding loop.
\* panic = "" while the call runs normally.
StartWork(g) ==
    [num |-> g.numInputs,
     out |-> g.outputs,
     infos |-> InitInfos(g.nodes),
     idx |-> NodeIdx(g.nodes),
     current |-> SeedCurrent(g.nodes, g.numInputs),
     next |-> <<>>,
     sets |-> <<>>,
     depth |-> 0,
     panic |-> ""]

\* sortedSets[depth] = append(sortedSets[depth], n)
AppendAt(sets, depth, x) ==
    IF Len(sets) = depth THEN Append(sets, <<x>>)
    ELSE [sets EXCEPT ![depth + 1] = Append(@, x)]

\* for _, m := range ms { ... }: consume the edges n -> m in the order ms.
\* nodes[m] is nil for a key that is no registered node, and the write to
\* mm.ParentIds then panics.
RECURSIVE ConsumeEdges(_, _, _)
ConsumeEdges(w, nIdx, ms) ==
    IF ms = <<>> \/ w.panic # "" THEN w
    ELSE LET m == Head(ms)
             from == w.infos[nIdx].Id
             out1 == Put(w.out, from, Outs(w.out, from) \ {m})
             num1 == Put(w.num, m, Count(w.num, m) - 1)
         IN  IF m \notin DOMAIN w.idx
             THEN [w EXCEPT !.out = out1, !.num = num1, !.panic = "nil dereference"]
             ELSE LET mi == w.idx[m]
                      infos1 == [w.infos EXCEPT ![mi].ParentIds = Append(@, from)]
                      infos2 == [infos1 EXCEPT ![nIdx].ChildIds = Append(@, m)]
                      next1 == IF num1[m] = 0 THEN Append(w.next, mi) ELSE w.next
                  IN  ConsumeEdges(
                          [w EXCEPT !.out = out1, !.num = num1,
                                    !.infos = infos2, !.next = next1],
                          nIdx, Tail(ms))

\* if len(current) == 0 { current = next; next = []; depth += 1 }
Advance(w) ==
    IF w.panic = "" /\ w.current = <<>>
    THEN [w EXCEPT !.current = w.next, !.next = <<>>, !.depth = @ + 1]
    ELSE w

\* for len(current) > 0 { ... }: every final state of the leveling loop,
\* over all orders in which `range outputs[n.Id]` may fill ms.
RECURSIVE LevelLoop(_)
LevelLoop(w) ==
    IF w.panic # "" \/ w.current = <<>> THEN {w}
    ELSE LET nIdx == Head(w.current)
             w1 == [w EXCEPT !.current = Tail(@),
                             !.sets = AppendAt(@, w.depth, nIdx)]
         IN  UNION {LevelLoop(Advance(ConsumeEdges(w1, nIdx, ms))) :
                        ms \in Orders(Outs(w1.out, w1.infos[nIdx].Id))}

\* r[k] = sortedSets[k]: the levels with the pointers followed
TopologyOf(w) ==
    [k \in 1..Len(w.sets) |->
        [i \in 1..Len(w.sets[k]) |-> w.infos[w.sets[k][i]]]]

RECURSIVE SumCounts(_, _)
SumCounts(num, ks) ==
    IF ks = {} THEN 0
    ELSE LET k == CHOOSE x \in ks : TRUE
         IN  num[k] + SumCounts(num, ks \ {k})

\* numUnresolvedEdges
NumUnresolvedEdges(num) == SumCounts(num, DOMAIN num)

\* the keys of invalidNodes
InvalidIds(num) == {id \in DOMAIN num : num[id] > 0}

\* A seed choice that takes the last id of `sorted` that still has outputs
CycleSeedLast(w) ==
    LET cands == {id \in {k \in DOMAIN w.num : w.num[k] > 0} : Outs(w.out, id) # {}}
    IN  IF cands = {} THEN 0
        ELSE CHOOSE id \in cands : \A o \in cands : ~Less(id, o)

\* the first id of `sorted` that still has outputs; 0 stands for nil
CycleSeed(w) ==
    LET cands == {id \in InvalidIds(w.num) : Outs(w.out, id) # {}}
    IN  IF cands = {} THEN 0
        ELSE CHOOSE id \in cands : \A o \in cands : ~Less(o, id)

\* for !seen[cur] { ...; for k := range outputs[cur] { cur = k; break } }
\* then path = append(path, cur).  An empty outputs[cur] leaves cur as is.
RECURSIVE Walk(_, _, _, _)
Walk(out, cur, seen, path) ==
    IF cur \in seen THEN {Append(path, cur)}
    ELSE IF Outs(out, cur) = {}
         THEN Walk(out, cur, seen \cup {cur}, Append(path, cur))
         ELSE UNION {Walk(out, k, seen \cup {cur}, Append(path, cur)) :
                        k \in Outs(out, cur)}

\* What a call returns: (Topology, error), or a panic.
Result(kind, nilTopo, topo, path, errNode, errDeps) ==
    [kind |-> kind, nilTopo |-> nilTopo, topo |-> topo, path |-> path,
     errNode |-> errNode, errDeps |-> errDeps]

Panicked(msg) == Result(msg, TRUE, <<>>, <<>>, 0, <<>>)

\* return nil, &UndefinedDependencyError{...} for the first bucket of the
\* copied outputs, in map order, whose key is no registered node; its
\* Dependents are the bucket's keys in map order.
UndefinedResults(g) ==
    LET idx == NodeIdx(g.nodes)
    IN  UNION {{Result("undefined", TRUE, <<>>, <<>>, dep, ds) :
                    ds \in Orders(g.outputs[dep])} :
                  dep \in {d \in DOMAIN g.outputs : d \notin DOMAIN idx}}

\* A cycle branch that returns nil instead of r
CycleResultsNil(w) ==
    IF \E id \in InvalidIds(w.num) : id \notin DOMAIN w.idx
    THEN {Panicked("nil dereference")}
    ELSE IF CycleSeed(w) = 0
    THEN {Panicked("invalid state: no nodes have remaining edges")}
    ELSE {Result("cycle", TRUE, <<>>, p, 0, <<>>) :
            p \in Walk(w.out, CycleSeed(w), {}, <<>>)}

\* if numUnresolvedEdges > 0 { ... return r, &Error{Cycle: ...} }
\* invalidNodes holds nodes[id], nil for an id that is no registered node;
\* reading n.Id of it panics.
CycleResults(w) ==
    IF \E id \in InvalidIds(w.num) : id \notin DOMAIN w.idx
    THEN {Panicked("nil dereference")}
    ELSE IF CycleSeed(w) = 0
    THEN {Panicked("invalid state: no nodes have remaining edges")}
    ELSE {Result("cycle", FALSE, TopologyOf(w), p, 0, <<>>) :
            p \in Walk(w.out, CycleSeed(w), {}, <<>>)}

\* sort.Slice(keys, Less): insertion of x into a sorted sequence
RECURSIVE InsertKey(_, _)
InsertKey(s, x) ==
    IF s = <<>> THEN <<x>>
    ELSE IF Less(x, Head(s)) THEN <<x>> \o s
    ELSE <<Head(s)>> \o InsertKey(Tail(s), x)

RECURSIVE SortKeys(_)
SortKeys(s) ==
    IF s = <<>> THEN <<>> ELSE InsertKey(SortKeys(Tail(s)), Head(s))

\* sort.Slice(included, by Id): sort.Slice is not stable, so entries with
\* the same Id may come out in any order.
SortedInfoOrders(s) ==
    {[i \in 1..Len(s) |-> s[q[i]]] :
        q \in {o \in Orders(1..Len(s)) :
                 \A i \in 1..(Len(s) - 1) : ~Less(s[o[i + 1]].Id, s[o[i]].Id)}}

\* A dependents list that takes every dependent of `id`, selected or not
DependentsInAll(g, id, only) == Outs(g.outputs, id)

\* The selected targets that depend on `id` in the live g.outputs
DependentsIn(g, id, only) == {t \in only : t \in Outs(g.outputs, id)}

\* A level scan without the `if _, ok := only[node.Id]; ok` branch: a
\* selected node is kept only when a selected node depends on it.
RECURSIVE ScopeLevelNoSelf(_, _, _, _)
ScopeLevelNoSelf(g, opts, v, st) ==
    IF v = <<>> \/ st.err # 0 THEN st
    ELSE LET node == Head(v)
             inc == [st EXCEPT !.included = Append(@, node)]
             deps == {t \in st.only : t \in Outs(g.outputs, node.Id)}
         IN  IF opts.only = {} THEN ScopeLevelNoSelf(g, opts, Tail(v), inc)
             ELSE IF opts.withoutDeps THEN ScopeLevelNoSelf(g, opts, Tail(v), st)
             ELSE IF deps = {} THEN ScopeLevelNoSelf(g, opts, Tail(v), st)
             ELSE IF ~opts.withDeps
                  THEN [st EXCEPT !.err = node.Id, !.errDeps = SortKeys(
                            CHOOSE o \in Orders(deps) : TRUE)]
                  ELSE ScopeLevelNoSelf(g, opts, Tail(v),
                          [inc EXCEPT !.only = @ \cup {node.Id}])

\* A level scan that looks at withDeps before withoutDeps: with both flags
\* set a dependency of a selected node is folded in.
RECURSIVE ScopeLevelDepsFirst(_, _, _, _)
ScopeLevelDepsFirst(g, opts, v, st) ==
    IF v = <<>> \/ st.err # 0 THEN st
    ELSE LET node == Head(v)
             inc == [st EXCEPT !.included = Append(@, node)]
             deps == {t \in st.only : t \in Outs(g.outputs, node.Id)}
         IN  IF opts.only = {} THEN ScopeLevelDepsFirst(g, opts, Tail(v), inc)
             ELSE IF node.Id \in st.only
                  THEN ScopeLevelDepsFirst(g, opts, Tail(v), inc)
             ELSE IF deps # {} /\ opts.withDeps
                  THEN ScopeLevelDepsFirst(g, opts, Tail(v),
                          [inc EXCEPT !.only = @ \cup {node.Id}])
             ELSE IF opts.withoutDeps \/ deps = {}
                  THEN ScopeLevelDepsFirst(g, opts, Tail(v), st)
             ELSE [st EXCEPT !.err = node.Id, !.errDeps = SortKeys(
                       CHOOSE o \in Orders(deps) : TRUE)]

\* The body of `for i := range v` for one level v (a sequence of NodeInfo):
\* st = [only, included, err], err = 0 until an unhandled dependency is hit.
RECURSIVE ScopeLevel(_, _, _, _)
ScopeLevel(g, opts, v, st) ==
    IF v = <<>> \/ st.err # 0 THEN st
    ELSE LET node == Head(v)
             inc == [st EXCEPT !.included = Append(@, node)]
             deps == DependentsIn(g, node.Id, st.only)
         IN  IF opts.only = {} THEN ScopeLevel(g, opts, Tail(v), inc)
             ELSE IF node.Id \in st.only THEN ScopeLevel(g, opts, Tail(v), inc)
             ELSE IF opts.withoutDeps THEN ScopeLevel(g, opts, Tail(v), st)
             ELSE IF deps = {} THEN ScopeLevel(g, opts, Tail(v), st)
             ELSE IF ~opts.withDeps
                  THEN [st EXCEPT !.err = node.Id, !.errDeps = SortKeys(
                            CHOOSE o \in Orders(deps) : TRUE)]
                  ELSE ScopeLevel(g, opts, Tail(v),
                          [inc EXCEPT !.only = @ \cup {node.Id}])

\* A scope resolution without `if len(included) == 0 { continue }` and
\* without the final filter: a level with nothing included stays, empty.
RECURSIVE ScopeLevelsKeepEmpty(_, _, _, _, _, _)
ScopeLevelsKeepEmpty(g, opts, topo, k, only, acc) ==
    IF k = 0 THEN [err |-> 0, errDeps |-> <<>>, levels |-> acc]
    ELSE LET st == ScopeLevel(g, opts, topo[k],
                     [only |-> only, included |-> <<>>, err |-> 0, errDeps |-> <<>>])
         IN  IF st.err # 0
             THEN [err |-> st.err, errDeps |-> st.errDeps, levels |-> <<>>]
             ELSE ScopeLevelsKeepEmpty(g, opts, topo, k - 1, st.only,
                     <<st.included>> \o acc)

\* A scope resolution that walks the levels from the first to the last
RECURSIVE ScopeLevelsUpstreamFirst(_, _, _, _, _, _)
ScopeLevelsUpstreamFirst(g, opts, topo, k, only, acc) ==
    IF k = 0 THEN [err |-> 0, errDeps |-> <<>>, levels |-> acc]
    ELSE LET st == ScopeLevel(g, opts, topo[Len(topo) + 1 - k],
                     [only |-> only, included |-> <<>>, err |-> 0, errDeps |-> <<>>])
         IN  IF st.err # 0
             THEN [err |-> st.err, errDeps |-> st.errDeps, levels |-> <<>>]
             ELSE ScopeLevelsUpstreamFirst(g, opts, topo, k - 1, st.only,
                     IF st.included = <<>> THEN acc ELSE acc \o <<st.included>>)

\* for k := len(sortedSets) - 1; k >= 0; k-- { ... }: the levels from the
\* last to the first; acc collects r[k] before sorting, last level first.
RECURSIVE ScopeLevels(_, _, _, _, _, _)
ScopeLevels(g, opts, topo, k, only, acc) ==
    IF k = 0 THEN [err |-> 0, errDeps |-> <<>>, levels |-> acc]
    ELSE LET st == ScopeLevel(g, opts, topo[k], 
                     [only |-> only, included |-> <<>>, err |-> 0, errDeps |-> <<>>])
         IN  IF st.err # 0
             THEN [err |-> st.err, errDeps |-> st.errDeps, levels |-> <<>>]
             ELSE ScopeLevels(g, opts, topo, k - 1, st.only,
                     IF st.included = <<>> THEN acc ELSE <<st.included>> \o acc)

\* every way of sorting each of the kept levels
RECURSIVE SortedLevels(_)
SortedLevels(levels) ==
    IF levels = <<>> THEN {<<>>}
    ELSE {<<h>> \o t : h \in SortedInfoOrders(Head(levels)),
                       t \in SortedLevels(Tail(levels))}

\* Lines 1462-1544: scope resolution of a finished leveling
ScopeResults(g, opts, w) ==
    LET sc == ScopeLevels(g, opts, TopologyOf(w), Len(w.sets), opts.only, <<>>)
    IN  IF sc.err # 0
        THEN {Result("unhandled", TRUE, <<>>, <<>>, sc.err, sc.errDeps)}
        ELSE {Result("ok", FALSE, t, <<>>, 0, <<>>) : t \in SortedLevels(sc.levels)}

\* UnhandledDependencyError.UnhandledDependencies: the slice the error carries
UnhandledDependencies(res) ==
    IF res.kind = "unhandled"
    THEN <<[Id |-> res.errNode, Dependents |-> res.errDeps]>>
    ELSE <<>>

\* What one finished leveling leads to
FinishResults(g, opts, w) ==
    IF w.panic # "" THEN {Panicked(w.panic)}
    ELSE IF NumUnresolvedEdges(w.num) > 0 THEN CycleResults(w)
    ELSE ScopeResults(g, opts, w)

\* The option-independent part of a call: the undefined-node check, then
\* the leveling of the private copies.
Leveled(g) ==
    IF UndefinedResults(g) # {} THEN {} ELSE LevelLoop(StartWork(g))

\* An outcome of the call: what it returns and the private maps it leaves.
Outcome(res, num, out) == [res |-> res, num |-> num, out |-> out]

SortOutcomesFrom(g, opts, ws) ==
    IF UndefinedResults(g) # {}
    THEN {Outcome(r, g.numInputs, g.outputs) : r \in UndefinedResults(g)}
    ELSE UNION {{Outcome(r, w.num, w.out) : r \in FinishResults(g, opts, w)} :
                    w \in ws}

\* DAG.Sort(opts...): every outcome the call can have on g
SortOutcomes(g, opts) == SortOutcomesFrom(g, opts, Leveled(g))

SortResults(g, opts) == {o.res : o \in SortOutcomes(g, opts)}

\* A Sort that decrements g.numInputs itself instead of its copy
LiveAfterSortSharedCounts(g, num, out) == [g EXCEPT !.numInputs = num]

\* A Sort that levels g.numInputs and g.outputs themselves instead of
\* copies of them
LiveAfterSortAliased(g, num, out) == [g EXCEPT !.numInputs = num, !.outputs = out]

\* The live graph after a call that worked on the private maps (num, out):
\* Sort reads g.numInputs, g.outputs and g.nodes and writes none of them.
LiveAfterSort(g, num, out) == g

\* Topology.String(): per level the ids sorted; levels joined by " -> " and
\* ids by ", "; the joined text is kept as the sequence of sorted levels.
TopologyString(topo) ==
    [k \in 1..Len(topo) |-> SortKeys([i \in 1..Len(topo[k]) |-> topo[k][i].Id])]

(***************************************************************************)
(* State machine.                                                          *)
(***************************************************************************)
\* ret after a mutator: its name and its boolean result
MutRet(op, ok) ==
    [op |-> op, ok |-> ok, opts |-> SortOpts({}, FALSE, FALSE),
     res |-> Result("none", TRUE, <<>>, <<>>, 0, <<>>)]

\* ret after Sort/Plan: the options given and the (Topology, error) pair
SortRet(opts, res) ==
    [op |-> "Sort", ok |-> res.kind = "ok", opts |-> opts, res |-> res]

SetGraph(g) ==
    /\ nodes' = g.nodes
    /\ outputs' = g.outputs
    /\ labels' = g.labels
    /\ numInputs' = g.numInputs

\* A mutator call that asks for n elementary changes fits the budget
Fits(n) == built + n <= MaxBuilt

\* No Sort/Plan call runs step by step: every call is one atomic action
NoCalls == <<>>

\* New(Nodes(initNodes)), or New() when initNodes is empty
Init ==
    \E initNodes \in InitNodeLists :
        /\ nodes = AddNodesG(NewGraph, initNodes).nodes
        /\ outputs = AddNodesG(NewGraph, initNodes).outputs
        /\ labels = AddNodesG(NewGraph, initNodes).labels
        /\ numInputs = AddNodesG(NewGraph, initNodes).numInputs
        /\ ret = MutRet("New", TRUE)
        /\ built = 0
        /\ calls = NoCalls

AddNode ==
    \E key \in Keys :
        /\ Fits(1)
        /\ SetGraph(AddNodeG(G, key))
        /\ ret' = MutRet("AddNode", AddNodeOk(G, key))
        /\ built' = built + 1
        /\ calls' = calls

AddEdge ==
    \E from \in Keys, to \in Keys :
        /\ Fits(1)
        /\ SetGraph(AddEdgeG(G, from, to))
        /\ ret' = MutRet("AddEdge", TRUE)
        /\ built' = built + 1
        /\ calls' = calls

AddDependency ==
    \E sub \in Keys, deps \in SeqsUpTo(Keys, MaxDeps) \ {<<>>} :
        /\ Fits(Len(deps))
        /\ SetGraph(AddDependencyG(G, sub, deps))
        /\ ret' = MutRet("AddDependency", TRUE)
        /\ built' = built + Len(deps)
        /\ calls' = calls

Add ==
    \E node \in Keys, deps \in SeqsUpTo(Keys, MaxDeps), labs \in SUBSET LabelNames :
        /\ Fits(1 + Len(deps) + Cardinality(labs))
        /\ SetGraph(AddG(G, node, deps, labs))
        /\ ret' = MutRet("Add", TRUE)
        /\ built' = built + 1 + Len(deps) + Cardinality(labs)
        /\ calls' = calls

AddLabel ==
    \E sub \in Keys, labs \in (SUBSET LabelNames) \ {{}} :
        /\ Fits(Cardinality(labs))
        /\ SetGraph(AddLabelG(G, sub, labs))
        /\ ret' = MutRet("AddLabel", TRUE)
        /\ built' = built + Cardinality(labs)
        /\ calls' = calls

RemoveEdge ==
    \E from \in Keys, to \in Keys :
        /\ Fits(1)
        /\ SetGraph(RemoveEdgeG(G, from, to))
        /\ ret' = MutRet("RemoveEdge", RemoveEdgeOk(G, from))
        /\ built' = built + 1
        /\ calls' = calls

Sort ==
    LET ws == Leveled(G)
    IN  \E opts \in AllSortOpts :
            \E o \in SortOutcomesFrom(G, opts, ws) :
                /\ SetGraph(LiveAfterSort(G, o.num, o.out))
                /\ ret' = SortRet(opts, o.res)
                /\ built' = built
                /\ calls' = calls

Next ==
    \/ AddNode
    \/ AddEdge
    \/ AddDependency
    \/ Add
    \/ AddLabel
    \/ RemoveEdge
    \/ Sort

Spec == Init /\ [][Next]_vars

(***************************************************************************)
(* A second specification: Sort/Plan applied to graphs built over all the  *)
(* keys.  A graph is built by New(Nodes(1, ..., n)), then RemoveEdge(k, k) *)
(* for every k of `removed` (no such edge exists, RemoveEdge succeeds and  *)
(* decrements), then AddEdge(from, to) for every pair of `edges`, a set of *)
(* pairs of distinct keys.                                                 *)
(***************************************************************************)
BuiltEdges == {e \in Keys \X Keys : e[1] # e[2]}

RECURSIVE RemoveLoopsG(_, _)
RemoveLoopsG(g, ks) ==
    IF ks = {} THEN g
    ELSE LET k == CHOOSE x \in ks : TRUE
         IN  RemoveLoopsG(RemoveEdgeG(g, k, k), ks \ {k})

RECURSIVE AddEdgesG(_, _)
AddEdgesG(g, es) ==
    IF es = {} THEN g
    ELSE LET e == CHOOSE x \in es : TRUE
         IN  AddEdgesG(AddEdgeG(g, e[1], e[2]), es \ {e})

AllKeysList == [i \in 1..Cardinality(Keys) |-> i]

BuiltGraph(removed, edges) ==
    AddEdgesG(RemoveLoopsG(AddNodesG(NewGraph, AllKeysList), removed), edges)

InitBuilt ==
    \E removed \in SUBSET Keys, edges \in SUBSET BuiltEdges :
        /\ nodes = BuiltGraph(removed, edges).nodes
        /\ outputs = BuiltGraph(removed, edges).outputs
        /\ labels = BuiltGraph(removed, edges).labels
        /\ numInputs = BuiltGraph(removed, edges).numInputs
        /\ ret = MutRet(IF edges # {} THEN "AddEdge"
                        ELSE IF removed # {} THEN "RemoveEdge" ELSE "New", TRUE)
        /\ built = Cardinality(removed) + Cardinality(edges)
        /\ calls = NoCalls

NextBuilt == Sort

SpecBuilt == InitBuilt /\ [][NextBuilt]_vars

(***************************************************************************)
(* Vocabulary of the claims.                                               *)
(***************************************************************************)
Registered(g) == Range(g.nodes)

\* the live edge set: (a, b) means b depends on a
Edges(g) == UNION {{<<a, b>> : b \in g.outputs[a]} : a \in DOMAIN g.outputs}

FullyRegistered(g) ==
    \A e \in Edges(g) : e[1] \in Registered(g) /\ e[2] \in Registered(g)

RECURSIVE ReachFrom(_, _)
ReachFrom(g, S) ==
    LET T == S \cup UNION {Outs(g.outputs, a) : a \in S}
    IN  IF T = S THEN S ELSE ReachFrom(g, T)

\* a directed path of at least one edge from a to b
Path(g, a, b) == b \in ReachFrom(g, Outs(g.outputs, a))

HasCycle(g) == \E a \in Keys : Path(g, a, a)

Preds(g, n) == {a \in Keys : <<a, n>> \in Edges(g)}

Max(S) == CHOOSE x \in S : \A y \in S : y <= x

\* length of the longest dependency chain ending at n (acyclic g only)
RECURSIVE LongestChain(_, _)
LongestChain(g, n) ==
    IF Preds(g, n) = {} THEN 0
    ELSE 1 + Max({LongestChain(g, a) : a \in Preds(g, n)})

\* the positions <<level, place>> of a Topology and the keys found there
Places(topo) == UNION {{<<k, i>> : i \in 1..Len(topo[k])} : k \in 1..Len(topo)}

TopoIds(topo) == {topo[p[1]][p[2]].Id : p \in Places(topo)}

LevelsOf(topo, key) == {p[1] : p \in {q \in Places(topo) : topo[q[1]][q[2]].Id = key}}

Occurrences(topo, key) ==
    Cardinality({p \in Places(topo) : topo[p[1]][p[2]].Id = key})

SortReturned == ret.op = "Sort"

SortSucceeded == ret.op = "Sort" /\ ret.res.kind = "ok"

NoScope == ret.opts.only = {}

(***************************************************************************)
(* C1.  Level soundness: whenever Sort/Plan succeeds, every edge (A, B) of *)
(* the live edge set whose endpoints both appear in the returned Topology  *)
(* has A in a level strictly before every level of B.                      *)
(***************************************************************************)
C1_LevelSoundness ==
    SortSucceeded =>
        \A e \in Edges(G) :
            \A i \in LevelsOf(ret.res.topo, e[1]), j \in LevelsOf(ret.res.topo, e[2]) :
                i < j

(***************************************************************************)
(* C2.  Parallel-safety: in every Topology of a successful Sort/Plan no    *)
(* two distinct nodes of one level are joined by a directed path of the    *)
(* live edge set.                                                          *)
(***************************************************************************)
C2_ParallelSafety ==
    SortSucceeded =>
        \A x \in TopoIds(ret.res.topo), y \in TopoIds(ret.res.topo) :
            (x # y /\ LevelsOf(ret.res.topo, x) \cap LevelsOf(ret.res.topo, y) # {})
                => ~Path(G, x, y)

(***************************************************************************)
(* C3.  On an acyclic graph whose edge endpoints are all registered, Sort  *)
(* with no scope options succeeds and places every registered node in the  *)
(* level whose index is the length of the longest dependency chain ending  *)
(* at the node.                                                            *)
(***************************************************************************)
C3_LongestChainLevel ==
    (SortReturned /\ NoScope /\ ~HasCycle(G) /\ FullyRegistered(G)) =>
        /\ ret.res.kind = "ok"
        /\ \A n \in Registered(G) :
               LevelsOf(ret.res.topo, n) = {LongestChain(G, n) + 1}

(***************************************************************************)
(* C4.  With Only unset, a successful Sort/Plan returns a Topology in      *)
(* which every registered node appears exactly once.                       *)
(***************************************************************************)
C4_EveryNodeOnce ==
    (SortSucceeded /\ NoScope) =>
        \A n \in Registered(G) : Occurrences(ret.res.topo, n) = 1

(***************************************************************************)
(* C5.  Determinism of the plan: a second Sort/Plan call with the same     *)
(* options on the unmodified graph yields the same Topology string as the  *)
(* call that just succeeded, whatever the map iteration orders.            *)
(***************************************************************************)
C5_DeterministicPlan ==
    SortSucceeded =>
        \A r \in SortResults(G, ret.opts) :
            TopologyString(r.topo) = TopologyString(ret.res.topo)

(***************************************************************************)
(* C6.  Sort/Plan never mutates the live graph: across every call, with    *)
(* any options and any outcome, the node list, the edge set, the labels    *)
(* and the remaining-input counts stay what they were.                     *)
(***************************************************************************)
C6_SortLeavesGraph ==
    [][ret'.op = "Sort" =>
          /\ nodes' = nodes
          /\ outputs' = outputs
          /\ labels' = labels
          /\ numInputs' = numInputs]_vars

\* a successful call whose leveling consumed edges, which the live graph
\* still has
C6_Witness == SortSucceeded /\ Edges(G) # {} /\ labels # EmptyMap

(***************************************************************************)
(* C7.  On a graph whose edge endpoints are all registered, Sort/Plan      *)
(* returns a cycle-detected error if and only if the live edge set has a   *)
(* directed cycle.                                                         *)
(***************************************************************************)
C7_CycleErrorIffCycle ==
    (SortReturned /\ FullyRegistered(G)) =>
        (ret.res.kind = "cycle" <=> HasCycle(G))

(***************************************************************************)
(* C8.  The path of a cycle-detected error is a witness cycle: its first   *)
(* and last keys are the same and every consecutive pair is an edge.       *)
(***************************************************************************)
C8_PathIsCycle ==
    (SortReturned /\ ret.res.kind = "cycle") =>
        LET p == ret.res.path
        IN  /\ Len(p) >= 2
            /\ p[1] = p[Len(p)]
            /\ \A i \in 1..(Len(p) - 1) : <<p[i], p[i + 1]>> \in Edges(G)

(***************************************************************************)
(* C9.  As claimed: with a cycle-detected or an unhandled-dependency       *)
(* error the returned Topology is the zero value, no level is returned.    *)
(***************************************************************************)
C9_NoTopologyOnError ==
    (SortReturned /\ ret.res.kind \in {"cycle", "unhandled"}) =>
        ret.res.topo = <<>>

(***************************************************************************)
(* C9 as amended.  With an unhandled-dependency error the Topology is nil. *)
(* With a cycle-detected error the Topology is not nil: it holds the       *)
(* levels completed before the leveling stalled, none of them empty, the   *)
(* first being the registered nodes whose remaining-input count is 0; it   *)
(* is empty exactly when no registered node has count 0.                   *)
(***************************************************************************)
C9_TopologyOnError ==
    /\ (SortReturned /\ ret.res.kind = "unhandled") =>
           (ret.res.nilTopo /\ ret.res.topo = <<>>)
    /\ (SortReturned /\ ret.res.kind = "cycle") =>
           /\ ~ret.res.nilTopo
           /\ \A k \in 1..Len(ret.res.topo) : ret.res.topo[k] # <<>>
           /\ LET seeds == {n \in Registered(G) : Count(numInputs, n) = 0}
              IN  IF seeds = {} THEN ret.res.topo = <<>>
                  ELSE /\ ret.res.topo # <<>>
                       /\ {ret.res.topo[1][i].Id : i \in 1..Len(ret.res.topo[1])} = seeds

\* a cycle-detected error that comes with leveled nodes
C9_Witness ==
    SortReturned /\ ret.res.kind = "cycle" /\ ret.res.topo # <<>>

(***************************************************************************)
(* C10.  On an acyclic, fully registered graph Plan(Only(S)), S not empty, *)
(* with neither flag fails with an unhandled-dependency error if and only  *)
(* if a registered node outside S is a direct dependency of a node of S;   *)
(* otherwise it succeeds with exactly the registered nodes of S.           *)
(***************************************************************************)
C10_OnlyWithoutFlags ==
    (/\ SortReturned
     /\ ret.opts.only # {} /\ ~ret.opts.withDeps /\ ~ret.opts.withoutDeps
     /\ ~HasCycle(G) /\ FullyRegistered(G)) =>
        LET S == ret.opts.only
            offending == \E n \in Registered(G) \ S : \E t \in S : <<n, t>> \in Edges(G)
        IN  IF offending THEN ret.res.kind = "unhandled"
            ELSE /\ ret.res.kind = "ok"
                 /\ TopoIds(ret.res.topo) = Registered(G) \cap S
                 /\ \A n \in Registered(G) \cap S : Occurrences(ret.res.topo, n) = 1

\* a sequence of keys strictly ascending in the key order
Ascending(d) == \A i \in 1..(Len(d) - 1) : Less(d[i], d[i + 1])

(***************************************************************************)
(* C11.  An unhandled-dependency error carries exactly one (dependency,    *)
(* dependents) entry; its dependents are exactly the selected keys that    *)
(* directly depend on the reported dependency in the live edge set, each   *)
(* once, in ascending key order.                                           *)
(***************************************************************************)
C11_UnhandledEntry ==
    (SortReturned /\ ret.res.kind = "unhandled") =>
        LET u == UnhandledDependencies(ret.res)
        IN  /\ Len(u) = 1
            /\ Range(u[1].Dependents) =
                   {t \in ret.opts.only : <<u[1].Id, t>> \in Edges(G)}
            /\ Ascending(u[1].Dependents)

\* an unhandled dependency reported with two selected dependents
C11_Witness ==
    /\ SortReturned /\ ret.res.kind = "unhandled"
    /\ Len(ret.res.errDeps) = 2

\* the registered nodes of S and all their transitive dependencies
AncestorClosure(g, S) ==
    {n \in Registered(g) : n \in S \/ \E t \in S \cap Registered(g) : Path(g, n, t)}

\* the returned levels keep the order of the unscoped levels
KeepsLevelOrder(g, topo) ==
    \A x \in TopoIds(topo), y \in TopoIds(topo) :
        \A i \in LevelsOf(topo, x), j \in LevelsOf(topo, y) :
            (LongestChain(g, x) < LongestChain(g, y)) <=> (i < j)

(***************************************************************************)
(* C12.  On an acyclic, fully registered graph Plan(Only(S),               *)
(* WithDependencies()), S not empty, succeeds and returns exactly the      *)
(* registered nodes of S and all their transitive dependencies, each once  *)
(* and in the order of their levels.                                       *)
(***************************************************************************)
C12_WithDependencies ==
    (/\ SortReturned
     /\ ret.opts.only # {} /\ ret.opts.withDeps /\ ~ret.opts.withoutDeps
     /\ ~HasCycle(G) /\ FullyRegistered(G)) =>
        /\ ret.res.kind = "ok"
        /\ TopoIds(ret.res.topo) = AncestorClosure(G, ret.opts.only)
        /\ \A n \in TopoIds(ret.res.topo) : Occurrences(ret.res.topo, n) = 1
        /\ KeepsLevelOrder(G, ret.res.topo)

(***************************************************************************)
(* C13.  On an acyclic, fully registered graph Plan(Only(S),               *)
(* WithoutDependencies()), S not empty, never fails with an                *)
(* unhandled-dependency error and returns exactly the registered nodes of  *)
(* S, each once, also when dependencies of nodes of S lie outside S.       *)
(***************************************************************************)
C13_WithoutDependencies ==
    (/\ SortReturned
     /\ ret.opts.only # {} /\ ret.opts.withoutDeps /\ ~ret.opts.withDeps
     /\ ~HasCycle(G) /\ FullyRegistered(G)) =>
        /\ ret.res.kind = "ok"
        /\ TopoIds(ret.res.topo) = Registered(G) \cap ret.opts.only
        /\ \A n \in TopoIds(ret.res.topo) : Occurrences(ret.res.topo, n) = 1

(***************************************************************************)
(* C14.  Idempotent scoping: on every graph Plan(Only(K)), K the set of    *)
(* all registered keys and no dependency flag given, has the outcomes of   *)
(* Plan() with no scope option, and Plan() has the outcomes of             *)
(* Plan(Only(K)): the same levels on success, the same failure otherwise.  *)
(***************************************************************************)
C14_OnlyAllIsNoScope ==
    (SortReturned /\ ~ret.opts.withDeps /\ ~ret.opts.withoutDeps) =>
        /\ ret.opts.only = Registered(G) =>
               ret.res \in SortResults(G, SortOpts({}, FALSE, FALSE))
        /\ ret.opts.only = {} =>
               ret.res \in SortResults(G, SortOpts(Registered(G), FALSE, FALSE))

\* Plan(Only(K)) succeeded on a graph with an edge between selected nodes
C14_Witness ==
    /\ SortSucceeded /\ ~ret.opts.withDeps /\ ~ret.opts.withoutDeps
    /\ ret.opts.only = Registered(G) /\ Len(ret.res.topo) >= 2

(***************************************************************************)
(* C15.  Sort/Plan fails with an undefined-dependency error if and only if *)
(* the live edge set has an edge whose source key is no registered node;   *)
(* the error carries such a key and exactly the keys that depend on it     *)
(* through a current edge, each once.                                      *)
(***************************************************************************)
C15_UndefinedIffUnregisteredSource ==
    SortReturned =>
        /\ ret.res.kind = "undefined" <=>
               \E e \in Edges(G) : e[1] \notin Registered(G)
        /\ ret.res.kind = "undefined" =>
               /\ ret.res.errNode \notin Registered(G)
               /\ Range(ret.res.errDeps) = Outs(outputs, ret.res.errNode)
               /\ Len(ret.res.errDeps) = Cardinality(Outs(outputs, ret.res.errNode))

(***************************************************************************)
(* C16.  AddEdge/AddDependency accept an edge whose target key is no       *)
(* registered node, and a Sort/Plan of a graph that holds such an edge     *)
(* returns an error value naming an unregistered key: it neither succeeds  *)
(* nor panics.                                                             *)
(***************************************************************************)
C16_UnregisteredTargetIsError ==
    /\ ret.op \in {"AddEdge", "AddDependency"} => ret.ok
    /\ (SortReturned /\ \E e \in Edges(G) : e[2] \notin Registered(G)) =>
           /\ ret.res.kind = "undefined"
           /\ ret.res.errNode \notin Registered(G)

(***************************************************************************)
(* C17.  Declaration order does not matter: from every state, declaring a  *)
(* new node and then a new edge gives the graph state (and so the          *)
(* Sort/Plan outcomes) that declaring the edge first and the node second   *)
(* gives, also when the edge points to the node being declared.            *)
(***************************************************************************)
C17_DeclarationOrder ==
    \A n \in Keys \ Registered(G) :
        \A e \in (Keys \X Keys) \ Edges(G) :
            LET nodeFirst == AddEdgeG(AddNodeG(G, n), e[1], e[2])
                edgeFirst == AddNodeG(AddEdgeG(G, e[1], e[2]), n)
            IN  /\ nodeFirst = edgeFirst
                /\ SortResults(nodeFirst, SortOpts({}, FALSE, FALSE))
                     = SortResults(edgeFirst, SortOpts({}, FALSE, FALSE))

\* the number of live edges that point to n
InDegree(g, n) == Cardinality({e \in Edges(g) : e[2] = n})

(***************************************************************************)
(* C18.  Remaining-input count invariant: after any sequence of AddNode,   *)
(* AddEdge, AddDependency, Add and RemoveEdge calls the stored count of    *)
(* every key equals the number of live edges that point to it; it is       *)
(* never negative.                                                         *)
(***************************************************************************)
C18_CountIsInDegree ==
    \A n \in Keys : Count(numInputs, n) = InDegree(G, n)

(***************************************************************************)
(* C19.  Duplicate edge insertion is idempotent: an AddEdge/AddDependency  *)
(* call that adds no edge the live edge set did not already hold leaves    *)
(* the node list, the buckets and the counts as they were.                 *)
(***************************************************************************)
C19_DuplicateEdgeIdempotent ==
    [][(ret'.op \in {"AddEdge", "AddDependency"} /\ Edges(G)' = Edges(G)) =>
          /\ nodes' = nodes
          /\ outputs' = outputs
          /\ numInputs' = numInputs]_vars

(***************************************************************************)
(* C20.  AddNode registers a key at most once: a call that returns true    *)
(* appends a key that was not registered before, a call that returns false *)
(* leaves the node list, the edges and the counts unchanged, and no step   *)
(* (Add included) appends a key the node list already holds.               *)
(***************************************************************************)
C20_AddNodeOnce ==
    [][/\ nodes' # nodes =>
              \E k \in Keys \ Registered(G) : nodes' = Append(nodes, k)
       /\ (ret'.op = "AddNode" /\ ret'.ok) => nodes' # nodes
       /\ (ret'.op = "AddNode" /\ ~ret'.ok) =>
              /\ nodes' = nodes
              /\ outputs' = outputs
              /\ numInputs' = numInputs]_vars

(***************************************************************************)
(* C23.  Error precedence: a graph with an edge whose source is no         *)
(* registered node gives the undefined-dependency error whatever else is   *)
(* wrong with it, and on a graph with a directed cycle no Only(...)        *)
(* request is answered with an unhandled-dependency error.                 *)
(***************************************************************************)
C23_ErrorPrecedence ==
    SortReturned =>
        /\ (\E e \in Edges(G) : e[1] \notin Registered(G)) =>
               ret.res.kind = "undefined"
        /\ HasCycle(G) => ret.res.kind # "unhandled"

(***************************************************************************)
(* C24.  With Only(S) and both WithDependencies and WithoutDependencies    *)
(* given, WithoutDependencies wins: the call has the outcomes of           *)
(* Plan(Only(S), WithoutDependencies()) and the other way round, and a     *)
(* successful result holds selected keys only.                             *)
(***************************************************************************)
C24_WithoutDependenciesWins ==
    (SortReturned /\ ret.opts.only # {} /\ ret.opts.withoutDeps) =>
        /\ ret.res \in SortResults(G, SortOpts(ret.opts.only, ~ret.opts.withDeps, TRUE))
        /\ ret.res.kind = "ok" => TopoIds(ret.res.topo) \subseteq ret.opts.only

\* both flags were given and a registered dependency of a selected node,
\* not selected itself, was left out of a successful result
C24_Witness ==
    /\ SortSucceeded /\ ret.opts.withDeps /\ ret.opts.withoutDeps
    /\ \E e \in Edges(G) :
           /\ e[2] \in ret.opts.only /\ e[2] \in TopoIds(ret.res.topo)
           /\ e[1] \in Registered(G) \ ret.opts.only

\* the keys of one level
LevelIds(level) == {level[i].Id : i \in 1..Len(level)}

\* topo is u with nodes and whole levels left out: its levels sit in levels
\* of u, in the same order
SubLeveling(topo, u) ==
    /\ \A k \in 1..Len(topo) :
           \E m \in 1..Len(u) : LevelIds(topo[k]) \subseteq LevelIds(u[m])
    /\ \A k \in 1..(Len(topo) - 1) :
           \E m1 \in 1..Len(u), m2 \in 1..Len(u) :
               /\ m1 < m2
               /\ LevelIds(topo[k]) \subseteq LevelIds(u[m1])
               /\ LevelIds(topo[k + 1]) \subseteq LevelIds(u[m2])

(***************************************************************************)
(* C25.  A Topology returned by a successful Sort/Plan has no empty level: *)
(* a level of the unscoped leveling whose nodes were all excluded is       *)
(* dropped, and the levels that remain keep the order they have in the     *)
(* unscoped leveling.                                                      *)
(***************************************************************************)
C25_NoEmptyLevel ==
    SortSucceeded =>
        /\ \A k \in 1..Len(ret.res.topo) : ret.res.topo[k] # <<>>
        /\ \E u \in SortResults(G, SortOpts({}, FALSE, FALSE)) :
               u.kind = "ok" /\ SubLeveling(ret.res.topo, u.topo)

\* a scoped call succeeded with the middle one of three levels dropped
C25_Witness ==
    /\ SortSucceeded /\ Len(ret.res.topo) = 2
    /\ \E u \in SortResults(G, SortOpts({}, FALSE, FALSE)) :
           /\ Len(u.topo) = 3
           /\ LevelIds(ret.res.topo[1]) = LevelIds(u.topo[1])
           /\ LevelIds(ret.res.topo[2]) = LevelIds(u.topo[3])

\* the registered nodes outside S that a key of S directly depends on
Offenders(g, S) ==
    {n \in Registered(g) \ S : \E t \in S : <<n, t>> \in Edges(g)}

(***************************************************************************)
(* C26.  When Plan(Only(S)) without flags fails with an                    *)
(* unhandled-dependency error, the dependency reported is a non-selected   *)
(* direct dependency of a selected node, and no other such dependency lies *)
(* in a later level of the unscoped leveling.                              *)
(***************************************************************************)
C26_MostDownstreamOffender ==
    (SortReturned /\ ret.res.kind = "unhandled") =>
        /\ ret.res.errNode \in Offenders(G, ret.opts.only)
        /\ \A u \in SortResults(G, SortOpts({}, FALSE, FALSE)) :
               \A o \in Offenders(G, ret.opts.only) :
                   \A j \in LevelsOf(u.topo, o) :
                       \E i \in LevelsOf(u.topo, ret.res.errNode) : i >= j

\* two offending dependencies in different levels, the later one reported
C26_Witness ==
    /\ SortReturned /\ ret.res.kind = "unhandled"
    /\ \E u \in SortResults(G, SortOpts({}, FALSE, FALSE)) :
           \E o \in Offenders(G, ret.opts.only) :
               \E j \in LevelsOf(u.topo, o) :
                   \E i \in LevelsOf(u.topo, ret.res.errNode) : i > j

\* the keys left with a positive count and an unconsumed outgoing edge by
\* a finished leveling w
StuckWithEdges(w) ==
    {id \in DOMAIN w.num : w.num[id] > 0 /\ Outs(w.out, id) # {}}

\* the finished levelings of g that produced the levels topo
LevelingsOf(g, topo) ==
    {w \in LevelLoop(StartWork(g)) : w.panic = "" /\ TopologyOf(w) = topo}

(***************************************************************************)
(* C27.  In a cycle-detected error the first key of the path is the        *)
(* smallest key, in the key order, among the keys whose remaining-input    *)
(* count is still positive after the leveling and that still have an       *)
(* unconsumed outgoing edge.                                               *)
(***************************************************************************)
C27_CyclePathStart ==
    (SortReturned /\ ret.res.kind = "cycle") =>
        \E w \in LevelingsOf(G, ret.res.topo) :
            /\ ret.res.path[1] \in StuckWithEdges(w)
            /\ \A o \in StuckWithEdges(w) : ~Less(o, ret.res.path[1])

\* a cycle-detected error where the leveling left two candidate keys
C27_Witness ==
    /\ SortReturned /\ ret.res.kind = "cycle"
    /\ \E w \in LevelingsOf(G, ret.res.topo) : Cardinality(StuckWithEdges(w)) >= 2

\* a sequence that lists exactly the keys of S, each once
ListsOnce(seq, S) == Range(seq) = S /\ Len(seq) = Cardinality(S)

(***************************************************************************)
(* C28.  In every successful Sort/Plan result each NodeInfo's ParentIds    *)
(* lists exactly the node's direct dependencies in the live edge set and   *)
(* its ChildIds exactly its direct dependents, each once, whatever scope   *)
(* options were given and however many calls came before.                  *)
(***************************************************************************)
C28_ParentAndChildIds ==
    SortSucceeded =>
        \A p \in Places(ret.res.topo) :
            LET info == ret.res.topo[p[1]][p[2]]
            IN  /\ ListsOnce(info.ParentIds, Preds(G, info.Id))
                /\ ListsOnce(info.ChildIds, Outs(outputs, info.Id))

(***************************************************************************)
(* C29.  The abort "invalid state: no nodes have remaining edges" is       *)
(* unreachable on every graph built through the public mutators: no        *)
(* Sort/Plan call ends in it.                                              *)
(***************************************************************************)
C29_NoInvalidState ==
    SortReturned =>
        ret.res.kind # "invalid state: no nodes have remaining edges"

\* the error values Sort/Plan returns
ErrorKinds == {"undefined", "cycle", "unhandled"}

(***************************************************************************)
(* C30.  Error results are deterministic: when a Sort/Plan call returned   *)
(* an error, every call with the same options on the same graph returns    *)
(* the same error kind with the same data (undefined key and dependents,   *)
(* cycle path, unhandled dependency and dependents), whatever the map      *)
(* iteration orders.                                                       *)
(***************************************************************************)
C30_DeterministicError ==
    (SortReturned /\ ret.res.kind \in ErrorKinds) =>
        \A r \in SortResults(G, ret.opts) :
            /\ r.kind = ret.res.kind
            /\ r.path = ret.res.path
            /\ r.errNode = ret.res.errNode
            /\ r.errDeps = ret.res.errDeps

(***************************************************************************)
(* A third specification: Sort/Plan calls that run step by step, each in   *)
(* its own goroutine, against one graph that no mutator touches.  A call   *)
(* keeps its copies and its loop variables in its record of `calls`; one   *)
(* step is the copying and seeding, the undefined-node check, one          *)
(* iteration of the leveling loop, the cycle test, one iteration of the    *)
(* cycle walk, or the scope resolution.                                    *)
(***************************************************************************)
\* the goroutines that call Sort/Plan
Callers == {1, 2}

\* the options they pass
CallOpts ==
    {SortOpts({}, FALSE, FALSE), SortOpts({3}, TRUE, FALSE)}

\* the local variables of the cycle walk: cur, seen, path
NoWalk == [cur |-> 0, seen |-> {}, path |-> <<>>]

\* a goroutine that has not called Sort yet
IdleCall ==
    [pc |-> "idle", opts |-> SortOpts({}, FALSE, FALSE),
     w |-> StartWork(NewGraph), walk |-> NoWalk,
     res |-> Result("none", TRUE, <<>>, <<>>, 0, <<>>)]

\* what the call sees through its private nodes, outputs and numInputs
CallView(w) ==
    Graph([i \in 1..Len(w.infos) |-> w.infos[i].Id], w.out, EmptyMap, w.num)

\* A walk iteration that neither marks cur as seen nor appends it
WalkStepForgets(wk, k) == [wk EXCEPT !.cur = k]

\* seen[cur] = true; path = append(path, cur); cur = k
WalkStep(wk, k) ==
    [cur |-> k, seen |-> wk.seen \cup {wk.cur}, path |-> Append(wk.path, wk.cur)]

Returned(call, res) == [call EXCEPT !.pc = "done", !.res = res]

\* a step that writes nothing but the locals of the call
LocalStep == UNCHANGED <<nodes, outputs, labels, numInputs, ret, built>>

\* Sort is entered: options applied, numInputs and outputs copied, the
\* NodeInfos allocated and `current` seeded
CallBegin(c) ==
    /\ calls[c].pc = "idle"
    /\ \E opts \in CallOpts :
           calls' = [calls EXCEPT ![c] =
                        [IdleCall EXCEPT !.pc = "check", !.opts = opts,
                                         !.w = StartWork(G)]]
    /\ LocalStep

\* for dep, dependents := range outputs { if _, ok := nodes[dep]; !ok ... }
CallCheck(c) ==
    /\ calls[c].pc = "check"
    /\ LET und == UndefinedResults(CallView(calls[c].w))
       IN  IF und = {}
           THEN calls' = [calls EXCEPT ![c].pc = "level"]
           ELSE \E r \in und : calls' = [calls EXCEPT ![c] = Returned(@, r)]
    /\ LocalStep

\* one iteration of `for len(current) > 0`
CallLevel(c) ==
    /\ calls[c].pc = "level"
    /\ calls[c].w.current # <<>>
    /\ LET w == calls[c].w
           nIdx == Head(w.current)
           w1 == [w EXCEPT !.current = Tail(@),
                           !.sets = AppendAt(@, w.depth, nIdx)]
       IN  \E ms \in Orders(Outs(w1.out, w1.infos[nIdx].Id)) :
               LET w2 == Advance(ConsumeEdges(w1, nIdx, ms))
               IN  /\ calls' = [calls EXCEPT ![c] =
                                   IF w2.panic # ""
                                   THEN Returned([@ EXCEPT !.w = w2], Panicked(w2.panic))
                                   ELSE [@ EXCEPT !.w = w2]]
                   /\ SetGraph(LiveAfterSort(G, w2.num, w2.out))
                   /\ UNCHANGED <<ret, built>>

\* the loop has ended: numUnresolvedEdges is summed, and with a positive
\* sum the start of the walk is chosen
CallDetect(c) ==
    /\ calls[c].pc = "level"
    /\ calls[c].w.current = <<>>
    /\ LET w == calls[c].w
       IN  calls' = [calls EXCEPT ![c] =
               IF NumUnresolvedEdges(w.num) <= 0 THEN [@ EXCEPT !.pc = "scope"]
               ELSE IF \E id \in InvalidIds(w.num) : id \notin DOMAIN w.idx
               THEN Returned(@, Panicked("nil dereference"))
               ELSE IF CycleSeed(w) = 0
               THEN Returned(@, Panicked("invalid state: no nodes have remaining edges"))
               ELSE [@ EXCEPT !.pc = "walk",
                              !.walk = [NoWalk EXCEPT !.cur = CycleSeed(w)]]]
    /\ LocalStep

\* one iteration of `for !seen[cur]`, or the return that follows the loop
CallWalk(c) ==
    /\ calls[c].pc = "walk"
    /\ LET w == calls[c].w
           wk == calls[c].walk
       IN  IF wk.cur \in wk.seen
           THEN calls' = [calls EXCEPT ![c] =
                    Returned(@, Result("cycle", FALSE, TopologyOf(w),
                                       Append(wk.path, wk.cur), 0, <<>>))]
           ELSE \E k \in (IF Outs(w.out, wk.cur) = {} THEN {wk.cur}
                          ELSE Outs(w.out, wk.cur)) :
                    calls' = [calls EXCEPT ![c].walk = WalkStep(wk, k)]
    /\ LocalStep

\* the scope resolution, which reads g.outputs, and the return
CallScope(c) ==
    /\ calls[c].pc = "scope"
    /\ \E r \in ScopeResults(G, calls[c].opts, calls[c].w) :
           calls' = [calls EXCEPT ![c] = Returned(@, r)]
    /\ LocalStep

CallStep(c) ==
    \/ CallBegin(c)
    \/ CallCheck(c)
    \/ CallLevel(c)
    \/ CallDetect(c)
    \/ CallWalk(c)
    \/ CallScope(c)

\* the graphs the goroutines share: New(Nodes(1, 2, 3)) and then AddEdge
\* for each pair of a set of pairs of distinct keys, or for the edge
\* (1, 2) twice, or AddEdge(1, 1); AddEdge(1, 2), or the edge to a key
\* that was never registered
CallGraphs ==
    {BuiltGraph({}, edges) : edges \in SUBSET BuiltEdges}
        \cup {AddEdgeG(BuiltGraph({}, {<<1, 2>>}), 1, 2),
              AddEdgeG(BuiltGraph({}, {<<1, 1>>}), 1, 2),
              AddEdgeG(AddNodesG(NewGraph, <<1, 2>>), 3, 1),
              AddEdgeG(AddNodesG(NewGraph, <<1, 2>>), 1, 3)}

InitCalls ==
    \E g \in CallGraphs :
        /\ nodes = g.nodes
        /\ outputs = g.outputs
        /\ labels = g.labels
        /\ numInputs = g.numInputs
        /\ ret = MutRet(IF Edges(g) = {} THEN "New" ELSE "AddEdge", TRUE)
        /\ built = Len(g.nodes) + Cardinality(Edges(g))
        /\ calls = [c \in Callers |-> IdleCall]

NextCalls == \E c \in Callers : CallStep(c)

\* every goroutine that can take a step is eventually scheduled
SpecCalls ==
    /\ InitCalls
    /\ [][NextCalls]_vars
    /\ \A c \in Callers : WF_vars(CallStep(c))

\* a sequence without a repeated element
NoRepeats(seq) == \A i \in 1..Len(seq), j \in 1..Len(seq) : i # j => seq[i] # seq[j]

RECURSIVE SumLens(_)
SumLens(seqs) ==
    IF seqs = <<>> THEN 0 ELSE Len(Head(seqs)) + SumLens(Tail(seqs))

\* the edges a call has consumed so far: one ChildIds entry each
Consumed(w) == SumLens([i \in 1..Len(w.infos) |-> w.infos[i].ChildIds])

AllReturned == \A c \in Callers : calls[c].pc = "done"

(***************************************************************************)
(* C21.  Sort/Plan terminates on every graph, acyclic or cyclic, with any  *)
(* options: every call that is scheduled returns (or panics); its leveling *)
(* loop consumes no more edges than the graph has and its cycle walk       *)
(* visits no key twice.                                                    *)
(***************************************************************************)
C21_SortTerminates ==
    /\ <>[]AllReturned
    /\ [](\A c \in Callers :
              /\ Consumed(calls[c].w) <= Cardinality(Edges(G))
              /\ NoRepeats(calls[c].walk.path))

\* a call on a cyclic graph has returned after leveling and walking
C21_Witness ==
    \E c \in Callers :
        /\ calls[c].pc = "done" /\ calls[c].res.kind = "cycle"
        /\ calls[c].res.topo # <<>> /\ Len(calls[c].res.path) >= 3

(***************************************************************************)
(* C22.  Sort/Plan calls that run concurrently on one unmodified graph:    *)
(* under every interleaving of their steps each call returns a result it   *)
(* can return when it runs alone, and no step changes the node list, the   *)
(* edges, the labels or the counts of the shared graph.                    *)
(***************************************************************************)
C22_ConcurrentSorts ==
    /\ [](\A c \in Callers :
              calls[c].pc = "done" =>
                  calls[c].res \in SortResults(G, calls[c].opts))
    /\ [][/\ nodes' = nodes
          /\ outputs' = outputs
          /\ labels' = labels
          /\ numInputs' = numInputs]_vars

\* two calls are in the middle of their leveling loops at the same time
C22_Witness ==
    \A c \in Callers :
        /\ calls[c].pc = "level"
        /\ calls[c].w.sets # <<>> /\ calls[c].w.current # <<>>
====
